---- MODULE Spec2Model ----
(***************************************************************************)
(* Model of CarService (src/src/bibip_car_service.py): three fixed-width   *)
(* data files (models.txt, cars.txt, sales.txt), each with a sorted        *)
(* index file of "identifier|line_number" lines.                           *)
(*                                                                         *)
(* A string is a sequence of one-character strings.  A data-file line is   *)
(* stored as what line.strip().split('|') yields for it: the sequence of   *)
(* its fields; a line of RECORD_LENGTH blanks is the one-field line        *)
(* << <<>> >>.  An index line is the pair <<identifier, digits>>.          *)
(***************************************************************************)
EXTENDS Integers, Sequences, FiniteSets, TLC

RECORD_LENGTH == 500

LINE_RECORD_LENGTH == RECORD_LENGTH + 1

\* ---- bounds of the model ------------------------------------------------
\* The number of lines the three data files hold together.
MaxLines == 4

\* ---- strings ------------------------------------------------------------
\* The characters identifiers are made of, in ascending code-point order.
Alphabet == <<"0", "1", "2", "3", "4", "5", "6", "7", "8", "9", "A", "B", "C", "S">>

Ord(c) == CHOOSE i \in 1..Len(Alphabet) : Alphabet[i] = c

Front(s) == SubSeq(s, 1, Len(s) - 1)

Last(s) == s[Len(s)]

Max(a, b) == IF a < b THEN b ELSE a

\* Python's < on str: lexicographic by code point, a proper prefix is smaller.
RECURSIVE StrLess(_, _)
StrLess(a, b) ==
  IF b = <<>> THEN FALSE
  ELSE IF a = <<>> THEN TRUE
  ELSE IF a[1] = b[1] THEN StrLess(Tail(a), Tail(b))
  ELSE Ord(a[1]) < Ord(b[1])

\* str(n) for a non-negative int: its decimal digits.
RECURSIVE str(_)
str(n) == IF n < 10 THEN <<Alphabet[n + 1]>> ELSE str(n \div 10) \o <<Alphabet[(n % 10) + 1]>>

\* int(s) for a string of decimal digits.
RECURSIVE int(_)
int(s) == IF Len(s) = 1 THEN Ord(s[1]) - 1 ELSE int(Front(s)) * 10 + (Ord(Last(s)) - 1)

\* Optional values: None, or a one-element sequence holding the value.
None == <<>>

Some(x) == <<x>>

IsNone(o) == Len(o) = 0

\* ---- CarStatus values and the other field values the model draws from ---
available == <<"a", "v", "a", "i", "l", "a", "b", "l", "e">>

sold == <<"s", "o", "l", "d">>

Date1 == <<"d", "1">>

Date2 == <<"d", "2">>

\* Two VINs, "AB" and "B": the shorter one sorts last.
VinAB == <<"A", "B">>

VinB == <<"B">>

Vins == {VinAB, VinB}

SaleS1 == <<"S", "1">>

SaleS2 == <<"S", "2">>

SalesNumbers == {SaleS1, SaleS2}

\* Model ids 2 and 10: str(10) sorts before str(2).
ModelIds == {2, 10}

Statuses == {available, sold}

\* ---- record codec -------------------------------------------------------
ErrNone == "ok"

Blank == << <<>> >>

is_blank(line) == Len(line) = 1 /\ line[1] = <<>>

\* Length of the text whose strip().split('|') is `line`.
RECURSIVE PayloadLen(_)
PayloadLen(line) ==
  IF Len(line) = 0 THEN 0
  ELSE IF Len(line) = 1 THEN Len(line[1])
  ELSE PayloadLen(Front(line)) + 1 + Len(Last(line))

_car_to_string(car) ==
  <<car.vin, str(car.model), str(car.price), car.date_start, car.status>>

\* _string_to_car raises ValueError unless the line has exactly 5 fields.
_string_to_car_raises(line) == Len(line) # 5

_string_to_car(line) ==
  [vin |-> line[1], model |-> int(line[2]), price |-> int(line[3]),
   date_start |-> line[4], status |-> line[5]]

\* getattr(model, 'production_start_year', '') and getattr(model, 'price', '')
\* write an empty field for an attribute the model does not have.
_model_to_string(model) ==
  <<str(model.id), model.name, model.brand,
    IF IsNone(model.production_start_year) THEN <<>> ELSE str(model.production_start_year[1]),
    IF IsNone(model.price) THEN <<>> ELSE str(model.price[1])>>

_string_to_model_raises(line) == Len(line) < 3

_string_to_model(line) ==
  [id |-> int(line[1]), name |-> line[2], brand |-> line[3],
   production_start_year |->
     IF Len(line) > 3 /\ line[4] # <<>> THEN Some(int(line[4])) ELSE None,
   price |-> IF Len(line) > 4 /\ line[5] # <<>> THEN Some(int(line[5])) ELSE None]

_sale_to_string(sale) ==
  <<sale.sales_number, sale.car_vin, sale.sales_date, str(sale.cost)>>

_string_to_sale_raises(line) == Len(line) # 4

_string_to_sale(line) ==
  [sales_number |-> line[1], car_vin |-> line[2], sales_date |-> line[3],
   cost |-> int(line[4])]

\* ---- positional file store ----------------------------------------------
\* What a read yields where no whole record of RECORD_LENGTH characters starts.
Garbled == << <<"?">> >>

_get_index_file_path(data_file_path) ==
  CASE data_file_path = "models" -> "models_index"
    [] data_file_path = "cars" -> "cars_index"
    [] data_file_path = "sales" -> "sales_index"

\* data.ljust(RECORD_LENGTH) + '\n': a line is never shorter than RECORD_LENGTH.
LineBytes(line) == Max(PayloadLen(line), RECORD_LENGTH) + 1

RECURSIVE FileSize(_)
FileSize(f) == IF Len(f) = 0 THEN 0 ELSE FileSize(Front(f)) + LineBytes(Last(f))

\* The lines of f that start at byte `pos` and hold exactly one record.
SlotsAt(f, pos) ==
  {i \in 1..Len(f) : FileSize(SubSeq(f, 1, i - 1)) = pos /\ LineBytes(f[i]) = LINE_RECORD_LENGTH}

\* f.seek(seek_position); f.read(RECORD_LENGTH).strip()
read_record(f, seek_position) ==
  IF seek_position >= FileSize(f) THEN Blank
  ELSE IF SlotsAt(f, seek_position) = {} THEN Garbled
  ELSE f[CHOOSE i \in SlotsAt(f, seek_position) : TRUE]

\* open(file_path, 'r+'); f.seek(seek_position); f.write(line + '\n')
overwrite_record(f, seek_position, line) ==
  IF SlotsAt(f, seek_position) = {} \/ LineBytes(line) # LINE_RECORD_LENGTH
  THEN Append(f, Garbled)
  ELSE [f EXCEPT ![CHOOSE i \in SlotsAt(f, seek_position) : TRUE] = line]

\* ---- index store --------------------------------------------------------
\* list.sort(key=lambda x: x[0]): stable, ascending by the identifier string.
InsertEntry(sorted, e) ==
  LET before == {j \in 1..Len(sorted) : ~StrLess(e[1], sorted[j][1])}
      k == Cardinality(before)
  IN SubSeq(sorted, 1, k) \o <<e>> \o SubSeq(sorted, k + 1, Len(sorted))

RECURSIVE sort_by_id(_)
sort_by_id(entries) ==
  IF Len(entries) = 0 THEN <<>> ELSE InsertEntry(sort_by_id(Front(entries)), Last(entries))

RECURSIVE without_id(_, _)
without_id(entries, entity_id) ==
  IF Len(entries) = 0 THEN <<>>
  ELSE without_id(Front(entries), entity_id)
         \o (IF Last(entries)[1] # entity_id THEN <<Last(entries)>> ELSE <<>>)

_find_line_number_in_index(index, entity_id) ==
  LET hits == {i \in 1..Len(index) : index[i][1] = entity_id}
  IN IF hits = {} THEN None
     ELSE Some(int(index[CHOOSE i \in hits : \A j \in hits : i <= j][2]))

\* Mutant of _update_index: the entry the identifier already has is kept.
_update_index_KeepsOld(index, entity_id, line_number) ==
  sort_by_id(Append(index, <<entity_id, str(line_number)>>))

\* Mutant of _update_index: the entries read from the index file are dropped.
_update_index_DropsRead(index, entity_id, line_number) == <<<<entity_id, str(line_number)>>>>

_update_index(index, entity_id, line_number) ==
  sort_by_id(Append(without_id(index, entity_id), <<entity_id, str(line_number)>>))

_remove_from_index(index, entity_id) == sort_by_id(without_id(index, entity_id))

\* ---- entity repositories over a disk D: file name -> content -----------
_get_entity_data_and_line_number(D, file_path, entity_id) ==
  LET line_number == _find_line_number_in_index(D[_get_index_file_path(file_path)], entity_id)
  IN IF IsNone(line_number) THEN None
     ELSE Some([content |-> read_record(D[file_path], line_number[1] * LINE_RECORD_LENGTH),
                line_number |-> line_number[1]])

\* Mutant of _write_record_and_update_index: a tombstoned slot is written again.
_write_record_ReusesBlank(D, file_path, entity_id, data) ==
  LET blanks == {i \in 1..Len(D[file_path]) : is_blank(D[file_path][i])}
      slot == IF blanks = {} THEN Len(D[file_path]) + 1 ELSE CHOOSE i \in blanks : TRUE
  IN [D EXCEPT ![file_path] = IF blanks = {} THEN Append(@, data) ELSE [@ EXCEPT ![slot] = data],
               ![_get_index_file_path(file_path)] = _update_index(@, entity_id, slot - 1)]

_write_record_and_update_index(D, file_path, entity_id, data) ==
  LET line_number == FileSize(D[file_path]) \div LINE_RECORD_LENGTH
  IN [D EXCEPT ![file_path] = Append(@, data),
               ![_get_index_file_path(file_path)] = _update_index(@, entity_id, line_number)]

\* Returns the disk after the call and the error raised, if any.
_update_record_in_file(D, file_path, entity_id, new_data) ==
  LET old == _get_entity_data_and_line_number(D, file_path, entity_id)
  IN IF IsNone(old) THEN [disk |-> D, err |-> "NotFound"]
     ELSE IF PayloadLen(new_data) > RECORD_LENGTH THEN [disk |-> D, err |-> "RecordTooLarge"]
     ELSE [disk |-> [D EXCEPT ![file_path] =
                       overwrite_record(@, old[1].line_number * LINE_RECORD_LENGTH, new_data)],
           err |-> ErrNone]

\* Mutant of _remove_record_from_file: the line is cut out of the file.
_remove_record_CutsLine(D, file_path, entity_id) ==
  LET old == _get_entity_data_and_line_number(D, file_path, entity_id)
  IN IF IsNone(old) THEN D
     ELSE [D EXCEPT ![file_path] =
                      SubSeq(@, 1, old[1].line_number)
                        \o SubSeq(@, old[1].line_number + 2, Len(@)),
                    ![_get_index_file_path(file_path)] = _remove_from_index(@, entity_id)]

_remove_record_from_file(D, file_path, entity_id) ==
  LET old == _get_entity_data_and_line_number(D, file_path, entity_id)
  IN IF IsNone(old) THEN D
     ELSE [D EXCEPT ![file_path] =
                      overwrite_record(@, old[1].line_number * LINE_RECORD_LENGTH, Blank),
                    ![_get_index_file_path(file_path)] = _remove_from_index(@, entity_id)]

\* Returns the car found (None when the index has no entry) and the error
\* _string_to_car raises on the slot's content, if any.
_find_car_by_vin(D, vin) ==
  LET e == _get_entity_data_and_line_number(D, "cars", vin)
  IN IF IsNone(e) THEN [err |-> ErrNone, car |-> None]
     ELSE IF _string_to_car_raises(e[1].content) THEN [err |-> "MalformedRecord", car |-> None]
     ELSE [err |-> ErrNone, car |-> Some(_string_to_car(e[1].content))]

\* None when the index has no entry, the slot is blank or the line does not decode.
_get_model_by_id(D, model_id) ==
  LET line_number == _find_line_number_in_index(D["models_index"], str(model_id))
      line_content == read_record(D["models"], line_number[1] * LINE_RECORD_LENGTH)
  IN IF IsNone(line_number) THEN None
     ELSE IF is_blank(line_content) THEN None
     ELSE IF _string_to_model_raises(line_content) THEN None
     ELSE Some(_string_to_model(line_content))

_update_car_status_or_data(D, car) ==
  _update_record_in_file(D, "cars", car.vin, _car_to_string(car))

\* ---- cross-entity operations --------------------------------------------
\* Each returns [disk |-> the files after the call, err |-> the error raised,
\* ret |-> the value returned (None when it raises)].
Raise(D, err) == [disk |-> D, err |-> err, ret |-> None]

\* The outcome of a call that ends with _update_car_status_or_data(car).
Updated(upd, ret) == IF upd.err # ErrNone THEN Raise(upd.disk, upd.err)
                     ELSE [disk |-> upd.disk, err |-> ErrNone, ret |-> Some(ret)]

add_model(D, model) ==
  [disk |-> _write_record_and_update_index(D, "models", str(model.id), _model_to_string(model)),
   err |-> ErrNone, ret |-> Some(model)]

add_car(D, car) ==
  [disk |-> _write_record_and_update_index(D, "cars", car.vin, _car_to_string(car)),
   err |-> ErrNone, ret |-> Some(car)]

\* Mutant of sell_car: the status of the car is not looked at.
sell_car_NoSoldCheck(D, sale) ==
  LET found == _find_car_by_vin(D, sale.car_vin)
  IN IF found.err # ErrNone THEN Raise(D, found.err)
     ELSE IF IsNone(found.car) THEN Raise(D, "NotFound")
     ELSE LET upd == _update_car_status_or_data(D, [found.car[1] EXCEPT !.status = sold])
          IN IF upd.err # ErrNone THEN Raise(upd.disk, upd.err)
             ELSE [disk |-> _write_record_and_update_index(
                              upd.disk, "sales", sale.sales_number, _sale_to_string(sale)),
                   err |-> ErrNone, ret |-> Some(sale)]

sell_car(D, sale) ==
  LET found == _find_car_by_vin(D, sale.car_vin)
  IN IF found.err # ErrNone THEN Raise(D, found.err)
     ELSE IF IsNone(found.car) THEN Raise(D, "NotFound")
     ELSE IF found.car[1].status = sold THEN Raise(D, "AlreadySold")
     ELSE LET upd == _update_car_status_or_data(D, [found.car[1] EXCEPT !.status = sold])
          IN IF upd.err # ErrNone THEN Raise(upd.disk, upd.err)
             ELSE [disk |-> _write_record_and_update_index(
                              upd.disk, "sales", sale.sales_number, _sale_to_string(sale)),
                   err |-> ErrNone, ret |-> Some(sale)]

add_sale(D, sale) ==
  LET D1 == _write_record_and_update_index(D, "sales", sale.sales_number, _sale_to_string(sale))
      found == _find_car_by_vin(D1, sale.car_vin)
  IN IF found.err # ErrNone THEN Raise(D1, found.err)
     ELSE IF IsNone(found.car) THEN Raise(D1, "NotFound")
     ELSE Updated(_update_car_status_or_data(D1, [found.car[1] EXCEPT !.status = sold]), sale)

\* The scan of sales.txt that revert_sale and _update_references_in_sales
\* share: a blank line or one _string_to_sale raises on is copied as it is.
is_sale_line(line) == ~is_blank(line) /\ ~_string_to_sale_raises(line)

\* index_entries of _rebuild_sales_index, before the sort; n is the line count.
RECURSIVE sales_index_entries(_, _)
sales_index_entries(f, n) ==
  IF n = 0 THEN <<>>
  ELSE sales_index_entries(f, n - 1)
         \o (IF is_sale_line(f[n])
             THEN << <<_string_to_sale(f[n]).sales_number, str(n - 1)>> >>
             ELSE <<>>)

_rebuild_sales_index(D) ==
  [D EXCEPT !["sales_index"] = sort_by_id(sales_index_entries(D["sales"], Len(D["sales"])))]

RECURSIVE renamed_sales(_, _, _)
renamed_sales(f, old_vin, new_vin) ==
  IF Len(f) = 0 THEN <<>>
  ELSE renamed_sales(Front(f), old_vin, new_vin)
         \o << IF ~is_sale_line(Last(f)) THEN Last(f)
               ELSE IF _string_to_sale(Last(f)).car_vin = old_vin
                    THEN _sale_to_string([_string_to_sale(Last(f)) EXCEPT !.car_vin = new_vin])
                    ELSE _sale_to_string(_string_to_sale(Last(f))) >>

\* Mutant of _update_references_in_sales: sales.tmp never replaces sales.txt.
_update_references_Dropped(D, old_vin, new_vin) == D

_update_references_in_sales(D, old_vin, new_vin) ==
  LET sales_updated ==
        \E i \in 1..Len(D["sales"]) :
          is_sale_line(D["sales"][i]) /\ _string_to_sale(D["sales"][i]).car_vin = old_vin
  IN IF sales_updated
     THEN _rebuild_sales_index([D EXCEPT !["sales"] = renamed_sales(@, old_vin, new_vin)])
     ELSE D

\* Mutant of update_vin: a car under the new VIN is not looked for.
update_vin_NoConflictCheck(D, vin, new_vin) ==
  LET found == _find_car_by_vin(D, vin)
  IN IF found.err # ErrNone THEN Raise(D, found.err)
     ELSE IF IsNone(found.car) THEN Raise(D, "NotFound")
     ELSE LET updated_car == [found.car[1] EXCEPT !.vin = new_vin]
              D1 == _remove_record_from_file(D, "cars", vin)
              D2 == add_car(D1, updated_car).disk
          IN [disk |-> _update_references_in_sales(D2, vin, new_vin), err |-> ErrNone,
              ret |-> Some(updated_car)]

update_vin(D, vin, new_vin) ==
  LET found == _find_car_by_vin(D, vin)
      clash == _find_car_by_vin(D, new_vin)
  IN IF found.err # ErrNone THEN Raise(D, found.err)
     ELSE IF IsNone(found.car) THEN Raise(D, "NotFound")
     ELSE IF clash.err # ErrNone THEN Raise(D, clash.err)
     ELSE IF ~IsNone(clash.car) THEN Raise(D, "Conflict")
     ELSE LET updated_car == [found.car[1] EXCEPT !.vin = new_vin]
              D1 == _remove_record_from_file(D, "cars", vin)
              D2 == add_car(D1, updated_car).disk
          IN [disk |-> _update_references_in_sales(D2, vin, new_vin), err |-> ErrNone,
              ret |-> Some(updated_car)]

\* The lines of sales.txt whose sale has the number revert_sale looks for.
SalesHits(D, sales_number) ==
  {i \in 1..Len(D["sales"]) :
     is_sale_line(D["sales"][i]) /\ _string_to_sale(D["sales"][i]).sales_number = sales_number}

\* The lines revert_sale writes to sales_temp.txt.
RECURSIVE sales_without(_, _)
sales_without(f, sales_number) ==
  IF Len(f) = 0 THEN <<>>
  ELSE sales_without(Front(f), sales_number)
         \o (IF ~is_sale_line(Last(f)) THEN <<Last(f)>>
             ELSE IF _string_to_sale(Last(f)).sales_number = sales_number THEN <<>>
             ELSE <<_sale_to_string(_string_to_sale(Last(f)))>>)

\* Mutant of revert_sale: the sale is removed, the car stays as it is.
revert_sale_KeepsStatus(D, sales_number) ==
  LET hits == SalesHits(D, sales_number)
  IN IF hits = {} THEN Raise(D, "NotFound")
     ELSE LET car_vin_from_sale ==
                _string_to_sale(D["sales"][CHOOSE i \in hits : \A j \in hits : j <= i]).car_vin
              D1 == _rebuild_sales_index([D EXCEPT !["sales"] = sales_without(@, sales_number)])
              found == _find_car_by_vin(D1, car_vin_from_sale)
          IN IF IsNone(found.car) THEN Raise(D1, "NotFound")
             ELSE [disk |-> D1, err |-> ErrNone, ret |-> found.car]

revert_sale(D, sales_number) ==
  LET hits == SalesHits(D, sales_number)
  IN IF hits = {} THEN Raise(D, "NotFound")
     ELSE LET sale_info_found ==
                _string_to_sale(D["sales"][CHOOSE i \in hits : \A j \in hits : j <= i])
              car_vin_from_sale == sale_info_found.car_vin
              D1 == _rebuild_sales_index([D EXCEPT !["sales"] = sales_without(@, sales_number)])
              found == _find_car_by_vin(D1, car_vin_from_sale)
          IN IF car_vin_from_sale = <<>> THEN Raise(D1, "NotFound")
             ELSE IF found.err # ErrNone THEN Raise(D1, found.err)
             ELSE IF IsNone(found.car) THEN Raise(D1, "NotFound")
             ELSE Updated(_update_car_status_or_data(
                            D1, [found.car[1] EXCEPT !.status = available]),
                          [found.car[1] EXCEPT !.status = available])

\* ---- queries -------------------------------------------------------------
\* The loop of get_cars over the lines of cars.txt: a blank line or one
\* _string_to_car raises on is skipped.
RECURSIVE cars_with_status(_, _)
cars_with_status(f, status) ==
  IF Len(f) = 0 THEN <<>>
  ELSE cars_with_status(Front(f), status)
         \o (IF /\ ~is_blank(Last(f))
                /\ ~_string_to_car_raises(Last(f))
                /\ _string_to_car(Last(f)).status = status
             THEN <<_string_to_car(Last(f))>>
             ELSE <<>>)

get_cars(D, status) == cars_with_status(D["cars"], status)

\* The first sale line of sales.txt that references the VIN, None when there is none.
_get_sale_by_car_id(D, car_id) ==
  LET hits == {i \in 1..Len(D["sales"]) :
                 is_sale_line(D["sales"][i]) /\ _string_to_sale(D["sales"][i]).car_vin = car_id}
  IN IF hits = {} THEN None
     ELSE Some(_string_to_sale(D["sales"][CHOOSE i \in hits : \A j \in hits : i <= j]))

\* Returns [err, ret]: ret is None where the code returns None (no model),
\* sales_date and sales_cost are Optional.
get_car_info(D, vin) ==
  LET found == _find_car_by_vin(D, vin)
      car == found.car[1]
      model == _get_model_by_id(D, car.model)
      sale_info == IF car.status = sold THEN _get_sale_by_car_id(D, vin) ELSE None
  IN IF found.err # ErrNone THEN [err |-> found.err, ret |-> None]
     ELSE IF IsNone(found.car) THEN [err |-> "NotFound", ret |-> None]
     ELSE IF IsNone(model) THEN [err |-> ErrNone, ret |-> None]
     ELSE [err |-> ErrNone,
           ret |-> Some([vin |-> car.vin,
                         car_model_name |-> model[1].name,
                         car_model_brand |-> model[1].brand,
                         price |-> car.price,
                         date_start |-> car.date_start,
                         status |-> car.status,
                         sales_date |-> IF IsNone(sale_info) THEN None
                                        ELSE Some(sale_info[1].sales_date),
                         sales_cost |-> IF IsNone(sale_info) THEN None
                                        ELSE Some(sale_info[1].cost)])]

\* The lines of cars.txt the scan of top_models_by_sales decodes.
CarLines(f) == {i \in 1..Len(f) : ~is_blank(f[i]) /\ ~_string_to_car_raises(f[i])}

\* car_vin_to_model_id: for each VIN in cars.txt, the model of its last line.
car_vin_to_model_id(D) ==
  LET f == D["cars"]
  IN [vin \in {f[i][1] : i \in CarLines(f)} |->
        _string_to_car(f[CHOOSE i \in CarLines(f) :
                           /\ f[i][1] = vin
                           /\ \A j \in CarLines(f) : f[j][1] = vin => j <= i]).model]

\* model_sales_count after the scan of the sales lines f: the pairs
\* <<model_id, sales_count>> in the order the dict got its keys.
RECURSIVE model_sales_count(_, _)
model_sales_count(f, vin_to_model) ==
  IF Len(f) = 0 THEN <<>>
  ELSE LET counted == model_sales_count(Front(f), vin_to_model)
           line == Last(f)
       IN IF ~is_sale_line(line) THEN counted
          ELSE IF _string_to_sale(line).car_vin \notin DOMAIN vin_to_model THEN counted
          ELSE LET model_id == vin_to_model[_string_to_sale(line).car_vin]
               IN IF \E k \in 1..Len(counted) : counted[k][1] = model_id
                  THEN [k \in 1..Len(counted) |->
                          IF counted[k][1] = model_id
                          THEN <<model_id, counted[k][2] + 1>>
                          ELSE counted[k]]
                  ELSE Append(counted, <<model_id, 1>>)

_get_model_price(D, model_id) ==
  LET model == _get_model_by_id(D, model_id)
  IN IF IsNone(model) THEN 0
     ELSE IF IsNone(model[1].price) THEN 0
     ELSE model[1].price[1]

\* The sort key (-item[1], self._get_model_price(item[0])) compared as a tuple.
KeyLess(D, a, b) ==
  \/ a[2] > b[2]
  \/ a[2] = b[2] /\ _get_model_price(D, a[1]) < _get_model_price(D, b[1])

\* sorted(): stable, so an item goes after the items whose key is not greater.
RECURSIVE sorted_models(_, _)
sorted_models(D, items) ==
  IF Len(items) = 0 THEN <<>>
  ELSE LET done == sorted_models(D, Front(items))
           k == Cardinality({j \in 1..Len(done) : ~KeyLess(D, Last(items), done[j])})
       IN SubSeq(done, 1, k) \o <<Last(items)>> \o SubSeq(done, k + 1, Len(done))

\* The loop over sorted_models[:3]: a model _get_model_by_id does not find is left out.
RECURSIVE model_sale_stats(_, _)
model_sale_stats(D, top) ==
  IF Len(top) = 0 THEN <<>>
  ELSE LET model == _get_model_by_id(D, Last(top)[1])
       IN model_sale_stats(D, Front(top))
            \o (IF IsNone(model) THEN <<>>
                ELSE <<[car_model_name |-> model[1].name, brand |-> model[1].brand,
                        sales_count |-> Last(top)[2]]>>)

top_models_by_sales(D) ==
  LET ranking == sorted_models(D, model_sales_count(D["sales"], car_vin_to_model_id(D)))
  IN model_sale_stats(D, SubSeq(ranking, 1, IF Len(ranking) < 3 THEN Len(ranking) ELSE 3))

\* ---- the state machine --------------------------------------------------
\* The six files; `last`, the latest call with its outcome; `running`, the
\* calls that have begun and not returned, each with its local variables
\* (empty wherever a call runs from begin to return in one step).
VARIABLES models, models_index, cars, cars_index, sales, sales_index, last, running

vars == <<models, models_index, cars, cars_index, sales, sales_index, last, running>>

files == <<models, models_index, cars, cars_index, sales, sales_index>>

Disk ==
  [models |-> models, models_index |-> models_index, cars |-> cars,
   cars_index |-> cars_index, sales |-> sales, sales_index |-> sales_index]

Store(D) ==
  /\ models' = D["models"]
  /\ models_index' = D["models_index"]
  /\ cars' = D["cars"]
  /\ cars_index' = D["cars_index"]
  /\ sales' = D["sales"]
  /\ sales_index' = D["sales_index"]

NameM == <<"M">>

BrandT == <<"T">>

NameN == <<"N">>

\* The name of each model the callers insert: it tells the models apart.
NameOf(id) == IF id = 2 THEN NameM ELSE NameN

ModelEntities ==
  {[id |-> id, name |-> NameOf(id), brand |-> BrandT,
    production_start_year |-> None, price |-> None] : id \in ModelIds}

\* The model of each car the callers insert.
ModelOf(vin) == IF vin = VinB THEN 10 ELSE 2

CarEntities ==
  {[vin |-> v, model |-> ModelOf(v), price |-> 100, date_start |-> Date1, status |-> st] :
     v \in Vins, st \in Statuses}

\* The date and the cost of each sale the callers make: they tell the sales apart.
DateOf(sales_number) == IF sales_number = SaleS1 THEN Date1 ELSE Date2

CostOf(sales_number) == IF sales_number = SaleS1 THEN 90 ELSE 95

SaleEntities ==
  {[sales_number |-> n, car_vin |-> v, sales_date |-> DateOf(n), cost |-> CostOf(n)] :
     n \in SalesNumbers, v \in Vins}

\* CarService.__init__: the six files exist and are empty.
Init ==
  /\ models = <<>> /\ models_index = <<>>
  /\ cars = <<>> /\ cars_index = <<>>
  /\ sales = <<>> /\ sales_index = <<>>
  /\ last = [op |-> "init", arg |-> <<>>, err |-> ErrNone, ret |-> None]
  /\ running = <<>>

\* One call: the files become what the call leaves on disk, and `last` records it.
Call(op, arg, r) ==
  /\ Store(r.disk)
  /\ last' = [op |-> op, arg |-> arg, err |-> r.err, ret |-> r.ret]
  /\ UNCHANGED running

AddModel ==
  \E model \in ModelEntities :
    /\ Len(models) + Len(cars) + Len(sales) < MaxLines
    /\ Call("add_model", model, add_model(Disk, model))

AddCar ==
  \E car \in CarEntities :
    /\ Len(models) + Len(cars) + Len(sales) < MaxLines
    /\ Call("add_car", car, add_car(Disk, car))

SellCar ==
  \E sale \in SaleEntities :
    /\ Len(models) + Len(cars) + Len(sales) < MaxLines
    /\ Call("sell_car", sale, sell_car(Disk, sale))

AddSale ==
  \E sale \in SaleEntities :
    /\ Len(models) + Len(cars) + Len(sales) < MaxLines
    /\ Call("add_sale", sale, add_sale(Disk, sale))

RevertSale ==
  \E sales_number \in SalesNumbers :
    LET r == revert_sale(Disk, sales_number)
    IN /\ Store(r.disk)
       /\ last' = [op |-> "revert_sale", arg |-> sales_number, err |-> r.err, ret |-> r.ret]
       /\ UNCHANGED running

UpdateVin ==
  \E vin \in Vins, new_vin \in Vins :
    /\ Len(models) + Len(cars) + Len(sales) < MaxLines
    /\ Call("update_vin", <<vin, new_vin>>, update_vin(Disk, vin, new_vin))

Next == AddModel \/ AddCar \/ SellCar \/ AddSale \/ RevertSale \/ UpdateVin

Spec == Init /\ [][Next]_vars

\* The callers of claim C2: a car is inserted once, available, and sales are
\* made by sell_car only.
AddAvailableCar ==
  \E car \in CarEntities :
    /\ car.status = available
    /\ \A i \in 1..Len(cars) : cars[i][1] # car.vin
    /\ Len(models) + Len(cars) + Len(sales) < MaxLines
    /\ Call("add_car", car, add_car(Disk, car))

NextSell == AddAvailableCar \/ SellCar \/ RevertSale \/ UpdateVin

SpecSell == Init /\ [][NextSell]_vars

\* ---- the callers of the ranking (C11) -------------------------------------
\* The number of lines sales.txt holds under SpecTop.
MaxTopSales == 4

\* Four models, the third without a price, the second and the fourth at the
\* same price; five cars, the first and the last of model 1.
TopModelIds == {1, 2, 3, 4}

TopPriceOf(id) ==
  CASE id = 1 -> Some(30) [] id = 2 -> Some(20) [] id = 3 -> None [] id = 4 -> Some(20)

TopModel(id) ==
  [id |-> id, name |-> <<"M">> \o str(id), brand |-> BrandT,
   production_start_year |-> None, price |-> TopPriceOf(id)]

TopCars == 1..5

TopVin(c) == <<"C">> \o str(c)

TopCar(c) ==
  [vin |-> TopVin(c), model |-> IF c = 5 THEN 1 ELSE c, price |-> 100,
   date_start |-> Date1, status |-> available]

TopSale(c) ==
  [sales_number |-> <<"S">> \o str(c), car_vin |-> TopVin(c), sales_date |-> Date1,
   cost |-> 90]

\* The files after add_model of the models 1..n that are not in `unstored`.
RECURSIVE with_models(_, _, _)
with_models(D, n, unstored) ==
  IF n = 0 THEN D
  ELSE IF n \in unstored THEN with_models(D, n - 1, unstored)
  ELSE add_model(with_models(D, n - 1, unstored), TopModel(n)).disk

\* The files after add_car of the cars 1..n.
RECURSIVE with_cars(_, _)
with_cars(D, n) == IF n = 0 THEN D ELSE add_car(with_cars(D, n - 1), TopCar(n)).disk

EmptyDisk ==
  [models |-> <<>>, models_index |-> <<>>, cars |-> <<>>, cars_index |-> <<>>,
   sales |-> <<>>, sales_index |-> <<>>]

\* The five cars are in stock; at most one of the four models was never inserted.
InitTop ==
  \E unstored \in {u \in SUBSET TopModelIds : Cardinality(u) <= 1} :
    LET D == with_cars(with_models(EmptyDisk, Cardinality(TopModelIds), unstored),
                       Cardinality(TopCars))
    IN /\ models = D["models"] /\ models_index = D["models_index"]
       /\ cars = D["cars"] /\ cars_index = D["cars_index"]
       /\ sales = D["sales"] /\ sales_index = D["sales_index"]
       /\ last = [op |-> "init", arg |-> <<>>, err |-> ErrNone, ret |-> None]
       /\ running = <<>>

TopSellCar ==
  \E c \in TopCars :
    /\ Len(sales) < MaxTopSales
    /\ Call("sell_car", TopSale(c), sell_car(Disk, TopSale(c)))

TopRevertSale ==
  \E c \in TopCars :
    LET r == revert_sale(Disk, TopSale(c).sales_number)
    IN /\ Store(r.disk)
       /\ last' = [op |-> "revert_sale", arg |-> TopSale(c).sales_number,
                   err |-> r.err, ret |-> r.ret]
       /\ UNCHANGED running

NextTop == TopSellCar \/ TopRevertSale

SpecTop == InitTop /\ [][NextTop]_vars

\* ---- the callers with long field values (C13) -----------------------------
\* A model name of RECORD_LENGTH characters: the model's line is longer than
\* RECORD_LENGTH.
WideName == [i \in 1..RECORD_LENGTH |-> "x"]

\* A VIN so long that the car's line fits RECORD_LENGTH with status sold and
\* does not with status available.
WideVin == [i \in 1..(RECORD_LENGTH - 15) |-> "C"]

WideModelEntities ==
  {[id |-> id, name |-> name, brand |-> BrandT,
    production_start_year |-> None, price |-> None] :
     id \in ModelIds, name \in {NameM, WideName}}

WideCarEntities ==
  {[vin |-> v, model |-> ModelOf(v), price |-> 100, date_start |-> Date1, status |-> sold] :
     v \in {VinB, WideVin}}

WideSaleEntities ==
  {[sales_number |-> n, car_vin |-> v, sales_date |-> DateOf(n), cost |-> CostOf(n)] :
     n \in SalesNumbers, v \in {VinB, WideVin}}

WideAddModel ==
  \E model \in WideModelEntities :
    /\ Len(models) + Len(cars) + Len(sales) < MaxLines
    /\ Call("add_model", model, add_model(Disk, model))

WideAddCar ==
  \E car \in WideCarEntities :
    /\ Len(models) + Len(cars) + Len(sales) < MaxLines
    /\ Call("add_car", car, add_car(Disk, car))

WideAddSale ==
  \E sale \in WideSaleEntities :
    /\ Len(models) + Len(cars) + Len(sales) < MaxLines
    /\ Call("add_sale", sale, add_sale(Disk, sale))

WideRevertSale ==
  \E sales_number \in SalesNumbers :
    LET r == revert_sale(Disk, sales_number)
    IN /\ Store(r.disk)
       /\ last' = [op |-> "revert_sale", arg |-> sales_number, err |-> r.err, ret |-> r.ret]
       /\ UNCHANGED running

NextWide == WideAddModel \/ WideAddCar \/ WideAddSale \/ WideRevertSale

SpecWide == Init /\ [][NextWide]_vars

\* ---- sell_car and add_sale, one file write at a time (C17) ----------------
\* A call in progress is [op, arg, pc, line_number]: pc names the point the
\* call has reached, line_number is the local of
\* _write_record_and_update_index.  A step returns the files after it, the
\* call after it, and the error raised, if any.
Running(op, arg) == [op |-> op, arg |-> arg, pc |-> "called", line_number |-> 0]

Stepped(D, call, pc) == [disk |-> D, call |-> [call EXCEPT !.pc = pc], err |-> ErrNone]

Raised(D, call, err) == [disk |-> D, call |-> [call EXCEPT !.pc = "raised"], err |-> err]

\* _write_record_and_update_index up to the end of its `with` block: the
\* line number is taken, the record is appended.
append_record(D, call, file_path, data) ==
  [disk |-> [D EXCEPT ![file_path] = Append(@, data)],
   call |-> [call EXCEPT !.pc = "record_appended",
                         !.line_number = FileSize(D[file_path]) \div LINE_RECORD_LENGTH],
   err |-> ErrNone]

\* sell_car: the checks and the write of the car's status, then the append
\* of the sale record, then the rewrite of the sales index.
sell_car_step(D, call) ==
  LET sale == call.arg
      found == _find_car_by_vin(D, sale.car_vin)
      upd == _update_car_status_or_data(D, [found.car[1] EXCEPT !.status = sold])
  IN CASE call.pc = "called" ->
            IF found.err # ErrNone THEN Raised(D, call, found.err)
            ELSE IF IsNone(found.car) THEN Raised(D, call, "NotFound")
            ELSE IF found.car[1].status = sold THEN Raised(D, call, "AlreadySold")
            ELSE IF upd.err # ErrNone THEN Raised(upd.disk, call, upd.err)
            ELSE Stepped(upd.disk, call, "status_written")
       [] call.pc = "status_written" ->
            append_record(D, call, "sales", _sale_to_string(sale))
       [] call.pc = "record_appended" ->
            Stepped([D EXCEPT !["sales_index"] =
                       _update_index(@, sale.sales_number, call.line_number)],
                    call, "returned")

\* add_sale: the append of the sale record, then the rewrite of the sales
\* index, then the lookup of the car and the write of its status.
add_sale_step(D, call) ==
  LET sale == call.arg
      found == _find_car_by_vin(D, sale.car_vin)
      upd == _update_car_status_or_data(D, [found.car[1] EXCEPT !.status = sold])
  IN CASE call.pc = "called" ->
            append_record(D, call, "sales", _sale_to_string(sale))
       [] call.pc = "record_appended" ->
            Stepped([D EXCEPT !["sales_index"] =
                       _update_index(@, sale.sales_number, call.line_number)],
                    call, "index_written")
       [] call.pc = "index_written" ->
            IF found.err # ErrNone THEN Raised(D, call, found.err)
            ELSE IF IsNone(found.car) THEN Raised(D, call, "NotFound")
            ELSE IF upd.err # ErrNone THEN Raised(upd.disk, call, upd.err)
            ELSE Stepped(upd.disk, call, "returned")

\* One step of the call in progress; when it returns or raises, `last`
\* records the call and nothing is in progress any more.
Step(r) ==
  /\ Store(r.disk)
  /\ IF r.call.pc \in {"returned", "raised"}
     THEN /\ running' = <<>>
          /\ last' = [op |-> r.call.op, arg |-> r.call.arg, err |-> r.err,
                      ret |-> IF r.err = ErrNone THEN Some(r.call.arg) ELSE None]
     ELSE /\ running' = <<r.call>>
          /\ UNCHANGED last

\* The callers of claim C17: cars are inserted once, available, and sold by
\* sell_car or add_sale while in stock.
StepAddCar ==
  /\ running = <<>>
  /\ AddAvailableCar

BeginSellCar ==
  \E sale \in SaleEntities :
    /\ running = <<>>
    /\ Len(models) + Len(cars) + Len(sales) < MaxLines
    /\ running' = <<Running("sell_car", sale)>>
    /\ UNCHANGED <<files, last>>

BeginAddSale ==
  \E sale \in SaleEntities :
    /\ running = <<>>
    /\ Len(models) + Len(cars) + Len(sales) < MaxLines
    /\ ~IsNone(_find_car_by_vin(Disk, sale.car_vin).car)
    /\ running' = <<Running("add_sale", sale)>>
    /\ UNCHANGED <<files, last>>

StepSellCar ==
  /\ running # <<>>
  /\ running[1].op = "sell_car"
  /\ Step(sell_car_step(Disk, running[1]))

StepAddSale ==
  /\ running # <<>>
  /\ running[1].op = "add_sale"
  /\ Step(add_sale_step(Disk, running[1]))

\* The process is stopped between two writes of the call in progress.
Interrupt ==
  /\ running # <<>>
  /\ running' = <<>>
  /\ last' = [op |-> running[1].op, arg |-> running[1].arg, err |-> "Interrupted",
              ret |-> None]
  /\ UNCHANGED files

NextSteps ==
  StepAddCar \/ BeginSellCar \/ BeginAddSale \/ StepSellCar \/ StepAddSale \/ Interrupt

SpecSteps == Init /\ [][NextSteps]_vars

\* ---- two callers inserting cars, one file access at a time (C18) ----------
Callers == {1, 2}

VinC == <<"C">>

RaceCarEntities ==
  {[vin |-> v, model |-> ModelOf(v), price |-> 100, date_start |-> Date1,
    status |-> available] : v \in Vins \cup {VinC}}

\* A caller's add_car: pc names the file access done last, line_number is the
\* local of _write_record_and_update_index, index_entries that of _update_index.
IdleCall == [pc |-> "idle", arg |-> None, line_number |-> 0, index_entries |-> <<>>]

\* The file accesses of add_car in order: f.tell() at the end of cars.txt,
\* the append of the record, the read of the index file, its rewrite.
add_car_step(D, call) ==
  CASE call.pc = "called" ->
         [disk |-> D,
          call |-> [call EXCEPT !.pc = "slot_computed",
                                !.line_number = FileSize(D["cars"]) \div LINE_RECORD_LENGTH]]
    [] call.pc = "slot_computed" ->
         [disk |-> [D EXCEPT !["cars"] = Append(@, _car_to_string(call.arg[1]))],
          call |-> [call EXCEPT !.pc = "record_appended"]]
    [] call.pc = "record_appended" ->
         [disk |-> D,
          call |-> [call EXCEPT !.pc = "index_read", !.index_entries = D["cars_index"]]]
    [] call.pc = "index_read" ->
         [disk |-> [D EXCEPT !["cars_index"] =
                      _update_index(call.index_entries, call.arg[1].vin, call.line_number)],
          call |-> IdleCall]

\* Under SpecRace `running` is [calls, overlapped]: the call of each caller,
\* and whether two calls have ever been in progress at the same time.
InitRace ==
  /\ models = <<>> /\ models_index = <<>>
  /\ cars = <<>> /\ cars_index = <<>>
  /\ sales = <<>> /\ sales_index = <<>>
  /\ last = [op |-> "init", arg |-> <<>>, err |-> ErrNone, ret |-> None]
  /\ running = [calls |-> [c \in Callers |-> IdleCall], overlapped |-> FALSE]

\* A caller calls add_car with a car whose VIN is neither stored nor being inserted.
RaceCall(c) ==
  \E car \in RaceCarEntities :
    /\ running.calls[c].pc = "idle"
    /\ Len(cars) + Cardinality({d \in Callers : running.calls[d].pc # "idle"}) < MaxLines
    /\ \A i \in 1..Len(cars) : cars[i][1] # car.vin
    /\ \A d \in Callers : running.calls[d].arg # Some(car)
    /\ running' = [calls |-> [running.calls EXCEPT ![c] = [IdleCall EXCEPT !.pc = "called",
                                                                       !.arg = Some(car)]],
                   overlapped |-> \/ running.overlapped
                                  \/ \E d \in Callers : running.calls[d].pc # "idle"]
    /\ UNCHANGED <<files, last>>

\* The next file access of a caller's add_car; after the last one it returns.
RaceStep(c) ==
  /\ running.calls[c].pc # "idle"
  /\ LET r == add_car_step(Disk, running.calls[c])
     IN /\ Store(r.disk)
        /\ running' = [running EXCEPT !.calls[c] = r.call]
        /\ last' = IF r.call.pc = "idle"
                   THEN [op |-> "add_car", arg |-> running.calls[c].arg[1], err |-> ErrNone,
                         ret |-> running.calls[c].arg]
                   ELSE last

NextRace == (\E c \in Callers : RaceCall(c)) \/ (\E c \in Callers : RaceStep(c))

SpecRace == InitRace /\ [][NextRace]_vars

\* ---- vocabulary of the properties ---------------------------------------
DataFiles == {"models", "cars", "sales"}

Ok(l) == l.err = ErrNone

\* The entries of an index that carry an identifier.
EntriesOf(index, entity_id) == {k \in 1..Len(index) : index[k][1] = entity_id}

\* The slots of a sales file whose sale references a VIN / has a number.
SalesOfVin(f, vin) == {i \in 1..Len(f) : is_sale_line(f[i]) /\ _string_to_sale(f[i]).car_vin = vin}

SalesNumbered(f, n) ==
  {i \in 1..Len(f) : is_sale_line(f[i]) /\ _string_to_sale(f[i]).sales_number = n}

\* The car the identifier-keyed lookup finds, None when absent.
Lookup(D, vin) == _find_car_by_vin(D, vin).car

Absent(D, vin) == _find_car_by_vin(D, vin) = [err |-> ErrNone, car |-> None]

\* ---- C1 -----------------------------------------------------------------
\* C1: in each data file every non-blank record has exactly one index entry
\* with its identifier, pointing at its slot, and every index entry points at
\* an in-range, non-blank slot whose record has that identifier.
IndexMatchesFile(f, index) ==
  /\ \A i \in 1..Len(f) :
       ~is_blank(f[i]) =>
         /\ Cardinality(EntriesOf(index, f[i][1])) = 1
         /\ \A k \in EntriesOf(index, f[i][1]) : int(index[k][2]) = i - 1
  /\ \A k \in 1..Len(index) :
       /\ int(index[k][2]) < Len(f)
       /\ ~is_blank(f[int(index[k][2]) + 1])
       /\ f[int(index[k][2]) + 1][1] = index[k][1]

IndexMatchesData ==
  \A file \in DataFiles : IndexMatchesFile(Disk[file], Disk[_get_index_file_path(file)])

\* ---- C2 -----------------------------------------------------------------
\* C2: a car the lookup finds is sold if and only if exactly one sale record
\* references its VIN (checked under SpecSell).
SoldIffOneSale ==
  \A vin \in Vins :
    ~IsNone(Lookup(Disk, vin)) =>
      (Lookup(Disk, vin)[1].status = sold <=> Cardinality(SalesOfVin(sales, vin)) = 1)

\* ---- C3 -----------------------------------------------------------------
\* C3: each index file is sorted ascending by identifier and has no two
\* entries with the same identifier.
StrictlySorted(index) ==
  \A k \in 1..(Len(index) - 1) : StrLess(index[k][1], index[k + 1][1])

IndexSortedNoDuplicates ==
  \A file \in DataFiles : StrictlySorted(Disk[_get_index_file_path(file)])

\* ---- C4 -----------------------------------------------------------------
\* C4: sell_car on a VIN whose car is sold raises AlreadySold and leaves all
\* six files as they were.
SellSoldCarRejected ==
  [][(/\ last'.op = "sell_car"
      /\ ~IsNone(Lookup(Disk, last'.arg.car_vin))
      /\ Lookup(Disk, last'.arg.car_vin)[1].status = sold)
     => (last'.err = "AlreadySold" /\ files' = files)]_vars

SellSoldCarReached == last.op = "sell_car" /\ last.err = "AlreadySold"

\* ---- C5 -----------------------------------------------------------------
\* C5: after a successful update_vin(old, new) the lookup of old is absent,
\* the lookup of new is the old car under the new VIN, every sale of old
\* references new, and every other sale line is unchanged, in its slot.
UpdateVinRenames ==
  [][(last'.op = "update_vin" /\ Ok(last'))
     => LET old == last'.arg[1]
            new == last'.arg[2]
        IN /\ Absent(Disk', old)
           /\ _find_car_by_vin(Disk', new) =
                [err |-> ErrNone, car |-> Some([Lookup(Disk, old)[1] EXCEPT !.vin = new])]
           /\ Len(sales') = Len(sales)
           /\ \A i \in 1..Len(sales) :
                sales'[i] = IF sales[i][2] = old THEN [sales[i] EXCEPT ![2] = new]
                            ELSE sales[i]]_vars

UpdateVinRenamed ==
  /\ last.op = "update_vin" /\ Ok(last)
  /\ Len(sales) > 1
  /\ Cardinality(SalesOfVin(sales, last.arg[2])) = Len(sales)

\* ---- C6 -----------------------------------------------------------------
\* C6: update_vin(old, new) raises NotFound when the lookup of old is absent
\* and Conflict when old is found and new is found too (new = old included);
\* either way the cars and sales files and their indexes are unchanged.
UpdateVinRejected ==
  [][last'.op = "update_vin"
     => LET old == last'.arg[1]
            new == last'.arg[2]
            same == <<cars, cars_index, sales, sales_index>>' =
                    <<cars, cars_index, sales, sales_index>>
        IN /\ IsNone(Lookup(Disk, old)) => (last'.err = "NotFound" /\ same)
           /\ (~IsNone(Lookup(Disk, old)) /\ ~IsNone(Lookup(Disk, new)))
                => (last'.err = "Conflict" /\ same)]_vars

UpdateVinConflictReached ==
  last.op = "update_vin" /\ last.err = "Conflict" /\ last.arg[1] = last.arg[2]

\* ---- C7 -----------------------------------------------------------------
\* C7: after a successful revert_sale(n) the linked car is available, no sale
\* numbered n is left in the sales file or its index, and sell_car of that VIN
\* under any sales number succeeds and leaves the car sold.
RevertThenResell ==
  (last.op = "revert_sale" /\ Ok(last)) =>
    LET vin == last.ret[1].vin
    IN /\ ~IsNone(Lookup(Disk, vin))
       /\ Lookup(Disk, vin)[1].status = available
       /\ SalesNumbered(sales, last.arg) = {}
       /\ EntriesOf(sales_index, last.arg) = {}
       /\ \A sale \in SaleEntities :
            sale.car_vin = vin =>
              /\ Ok(sell_car(Disk, sale))
              /\ Lookup(sell_car(Disk, sale).disk, vin)[1].status = sold
              /\ SalesNumbered(sell_car(Disk, sale).disk["sales"], sale.sales_number) # {}

RevertReached == last.op = "revert_sale" /\ Ok(last) /\ Len(sales) > 0

\* ---- C8 -----------------------------------------------------------------
\* C8: right after add_car(E) or add_model(E) the lookup of E's identifier
\* returns E, also when that identifier had been inserted before.
LookupAfterInsert ==
  /\ last.op = "add_car" =>
       _find_car_by_vin(Disk, last.arg.vin) = [err |-> ErrNone, car |-> Some(last.arg)]
  /\ last.op = "add_model" => _get_model_by_id(Disk, last.arg.id) = Some(last.arg)

ReinsertReached ==
  /\ last.op = "add_car"
  /\ \E i \in 1..(Len(cars) - 1) :
       ~is_blank(cars[i]) /\ cars[i][1] = last.arg.vin /\ cars[i] # _car_to_string(last.arg)

\* ---- C9 -----------------------------------------------------------------
\* A slot of f is still there in g, holding the same identifier or a tombstone.
SlotsKept(f, g) ==
  /\ Len(f) <= Len(g)
  /\ \A i \in 1..Len(f) : g[i][1] = f[i][1] \/ is_blank(g[i])

\* C9 as stated: in every data file a live record keeps its slot and a slot
\* is never given to another record, whatever the operation.
SlotsStable == [][\A file \in DataFiles : SlotsKept(Disk[file], Disk'[file])]_vars

\* C9 amended: this holds of the models and cars files always, and of the
\* sales file across every call but a revert_sale that finds its sale.
SlotsStableButRevert ==
  [][/\ SlotsKept(models, models')
     /\ SlotsKept(cars, cars')
     /\ (last'.op = "revert_sale" /\ SalesNumbered(sales, last'.arg) # {})
          \/ SlotsKept(sales, sales')]_vars

TombstoneKeptReached ==
  /\ last.op = "update_vin" /\ Ok(last)
  /\ Len(sales) > 0
  /\ \E i \in 1..Len(cars) : is_blank(cars[i])

\* ---- C10 ----------------------------------------------------------------
\* C10: update_vin leaves the old VIN absent and its slot blank; a later
\* add_car of another VIN appends at the end of the file, every tombstone
\* stays blank and every other absent VIN stays absent.
RemovedStaysRemoved ==
  [][/\ (last'.op = "update_vin" /\ Ok(last'))
          => /\ Absent(Disk', last'.arg[1])
             /\ is_blank(cars'[_find_line_number_in_index(cars_index, last'.arg[1])[1] + 1])
     /\ last'.op = "add_car"
          => /\ cars' = Append(cars, _car_to_string(last'.arg))
             /\ _find_line_number_in_index(cars_index', last'.arg.vin) = Some(Len(cars))
             /\ \A i \in 1..Len(cars) : is_blank(cars[i]) => is_blank(cars'[i])
             /\ \A vin \in Vins \ {last'.arg.vin} :
                  Absent(Disk, vin) => Absent(Disk', vin)]_vars

InsertAfterRemoveReached ==
  /\ last.op = "add_car"
  /\ \E i \in 1..Len(cars) : is_blank(cars[i])
  /\ \E vin \in Vins \ {last.arg.vin} : Absent(Disk, vin)

\* ---- C20 ----------------------------------------------------------------
\* C20: for each status, get_cars(status) holds no VIN twice, every car in
\* it is what the lookup of its VIN returns, and every car the lookup finds
\* with that status is in it.
GetCarsMatchesLookup ==
  \A status \in Statuses :
    LET result == get_cars(Disk, status)
    IN /\ \A i, j \in 1..Len(result) : result[i].vin = result[j].vin => i = j
       /\ \A i \in 1..Len(result) : Lookup(Disk, result[i].vin) = Some(result[i])
       /\ \A vin \in Vins :
            (~IsNone(Lookup(Disk, vin)) /\ Lookup(Disk, vin)[1].status = status)
              => \E i \in 1..Len(result) : result[i] = Lookup(Disk, vin)[1]

\* ---- C14 ----------------------------------------------------------------
\* C14: a call of add_sale, sell_car, revert_sale or update_vin that raises
\* leaves all six files as they were before the call.
RaisingCallPersistsNothing ==
  [][(last'.op \in {"add_sale", "sell_car", "revert_sale", "update_vin"} /\ ~Ok(last'))
     => files' = files]_vars

\* ---- C15 ----------------------------------------------------------------
\* f without its i-th line.
WithoutLine(f, i) == SubSeq(f, 1, i - 1) \o SubSeq(f, i + 1, Len(f))

\* Every sale line of f has an index entry pointing at its slot, and every
\* index entry points at a sale line with its number.
SalesIndexMatches(f, index) ==
  /\ \A i \in 1..Len(f) :
       is_sale_line(f[i]) => \E k \in EntriesOf(index, f[i][1]) : int(index[k][2]) = i - 1
  /\ \A k \in 1..Len(index) :
       /\ int(index[k][2]) < Len(f)
       /\ f[int(index[k][2]) + 1][1] = index[k][1]

\* C15: a successful revert_sale(n) removes one sale line numbered n and no
\* other, keeps the other lines and their order, leaves a sales index that
\* matches, and changes in cars.txt only the status of the car that line
\* referenced; with no sale numbered n it raises NotFound and changes nothing.
RevertRemovesOneSale ==
  [][last'.op = "revert_sale"
     => /\ SalesNumbered(sales, last'.arg) = {} => (last'.err = "NotFound" /\ files' = files)
        /\ Ok(last')
             => /\ \E i \in SalesNumbered(sales, last'.arg) :
                     /\ sales' = WithoutLine(sales, i)
                     /\ Len(cars') = Len(cars)
                     /\ \A c \in 1..Len(cars) :
                          \/ cars'[c] = cars[c]
                          \/ /\ cars[c][1] = sales[i][2]
                             /\ cars'[c] = [cars[c] EXCEPT ![5] = available]
                /\ SalesIndexMatches(sales', sales_index')
                /\ <<models, models_index, cars_index>>' = <<models, models_index, cars_index>>]_vars

\* ---- C16 ----------------------------------------------------------------
\* C16: sell_car of a VIN the lookup does not find raises NotFound and
\* changes no file; a successful sell_car sets the status field of the car's
\* slot to sold and changes nothing else in cars.txt, its index or the
\* models files, appends the sale to sales.txt and leaves the sales index
\* with one entry more, pointing at the new slot.
SellCarFrame ==
  [][last'.op = "sell_car"
     => LET sale == last'.arg
            slot == _find_line_number_in_index(cars_index, sale.car_vin)[1] + 1
        IN /\ IsNone(Lookup(Disk, sale.car_vin)) => (last'.err = "NotFound" /\ files' = files)
           /\ Ok(last')
                => /\ cars[slot][5] # sold
                   /\ cars' = [cars EXCEPT ![slot] = [@ EXCEPT ![5] = sold]]
                   /\ <<cars_index, models, models_index>>' = <<cars_index, models, models_index>>
                   /\ sales' = Append(sales, _sale_to_string(sale))
                   /\ Len(sales_index') = Len(sales_index) + 1
                   /\ _find_line_number_in_index(sales_index', sale.sales_number)
                        = Some(Len(sales))]_vars

\* ---- C12 ----------------------------------------------------------------
\* C12: right after a successful sell_car(S) of a car whose model is stored
\* (a first sale or a resale after a revert), get_car_info of the VIN
\* returns the car as sold with the name and brand of its model and the date
\* and cost of S; for a stored car that is not sold it returns no date or cost.
CarInfoReportsSale ==
  [][/\ (/\ last'.op = "sell_car" /\ Ok(last')
         /\ ~IsNone(_get_model_by_id(Disk', Lookup(Disk', last'.arg.car_vin)[1].model)))
          => LET sale == last'.arg
                 car == Lookup(Disk', sale.car_vin)[1]
                 model == _get_model_by_id(Disk', car.model)[1]
             IN get_car_info(Disk', sale.car_vin) =
                  [err |-> ErrNone,
                   ret |-> Some([vin |-> sale.car_vin,
                                 car_model_name |-> model.name,
                                 car_model_brand |-> model.brand,
                                 price |-> car.price,
                                 date_start |-> car.date_start,
                                 status |-> sold,
                                 sales_date |-> Some(sale.sales_date),
                                 sales_cost |-> Some(sale.cost)])]
     /\ \A vin \in Vins :
          (/\ ~IsNone(Lookup(Disk', vin))
           /\ Lookup(Disk', vin)[1].status # sold
           /\ ~IsNone(get_car_info(Disk', vin).ret))
            => /\ get_car_info(Disk', vin).ret[1].sales_date = None
               /\ get_car_info(Disk', vin).ret[1].sales_cost = None]_vars

\* ---- C19 ----------------------------------------------------------------
\* C19: across a successful update_vin(old, new) top_models_by_sales returns
\* the same list, and get_car_info(new) after it is get_car_info(old) before
\* it with the VIN replaced.
RenameInvisibleToQueries ==
  [][(last'.op = "update_vin" /\ Ok(last'))
     => LET before == get_car_info(Disk, last'.arg[1])
            after == get_car_info(Disk', last'.arg[2])
        IN /\ top_models_by_sales(Disk') = top_models_by_sales(Disk)
           /\ after.err = before.err
           /\ IsNone(after.ret) <=> IsNone(before.ret)
           /\ ~IsNone(before.ret) => after.ret[1] = [before.ret[1] EXCEPT !.vin = last'.arg[2]]]_vars

\* ---- C11 ----------------------------------------------------------------
\* The sale lines whose car_vin is the VIN of a stored car of the model.
SalesOfModel(D, id) ==
  {i \in 1..Len(D["sales"]) :
     /\ is_sale_line(D["sales"][i])
     /\ ~IsNone(Lookup(D, _string_to_sale(D["sales"][i]).car_vin))
     /\ Lookup(D, _string_to_sale(D["sales"][i]).car_vin)[1].model = id}

SoldModelIds(D) == {id \in TopModelIds : SalesOfModel(D, id) # {}}

StoredModelIds(D) ==
  {id \in TopModelIds : \E i \in 1..Len(D["models"]) : D["models"][i][1] = str(id)}

\* The price the ranking goes by: that of the stored model, 0 when unknown.
RankPrice(D, id) ==
  IF id \in StoredModelIds(D) /\ ~IsNone(TopPriceOf(id)) THEN TopPriceOf(id)[1] ELSE 0

\* The orders of the set `ids` by descending sales count, then ascending price.
Rankings(D, ids) ==
  {r \in [1..Cardinality(ids) -> ids] :
     /\ \A k, l \in DOMAIN r : r[k] = r[l] => k = l
     /\ \A k, l \in DOMAIN r :
          k < l =>
            \/ Cardinality(SalesOfModel(D, r[k])) > Cardinality(SalesOfModel(D, r[l]))
            \/ /\ Cardinality(SalesOfModel(D, r[k])) = Cardinality(SalesOfModel(D, r[l]))
               /\ RankPrice(D, r[k]) <= RankPrice(D, r[l])}

\* What is returned for the first three (or fewer) models of a ranking.
FirstThreeStats(D, r) ==
  [k \in 1..(IF Len(r) < 3 THEN Len(r) ELSE 3) |->
     [car_model_name |-> TopModel(r[k]).name, brand |-> TopModel(r[k]).brand,
      sales_count |-> Cardinality(SalesOfModel(D, r[k]))]]

\* C11: top_models_by_sales returns the first three (all, when fewer) of the
\* models with at least one sale, by descending sales count and then
\* ascending price (unknown as 0), each with its number of sale records;
\* "the models" read either as the model ids cars are sold of or as those of
\* them that are stored.
TopThreeOfSoldModels ==
  \/ \E r \in Rankings(Disk, SoldModelIds(Disk)) :
       top_models_by_sales(Disk) = FirstThreeStats(Disk, r)
  \/ \E r \in Rankings(Disk, {id \in SoldModelIds(Disk) : id \in StoredModelIds(Disk)}) :
       top_models_by_sales(Disk) = FirstThreeStats(Disk, r)

\* ---- C13 ----------------------------------------------------------------
\* Every line of f takes RECORD_LENGTH characters and a terminator, so that
\* line i starts at byte i * LINE_RECORD_LENGTH.
FixedWidth(f) ==
  /\ \A i \in 1..Len(f) : FileSize(SubSeq(f, 1, i - 1)) = (i - 1) * LINE_RECORD_LENGTH
  /\ FileSize(f) % LINE_RECORD_LENGTH = 0

\* C13: after every call each data file is made of fixed-width slots; an
\* add_model of a model whose line is longer than RECORD_LENGTH raises
\* RecordTooLarge and writes nothing, and the rewrite of a car's slot (here
\* by revert_sale, for the car of the last sale line with the number) with a
\* line longer than RECORD_LENGTH raises RecordTooLarge and leaves cars.txt
\* as it was.
FixedWidthSlots ==
  [][/\ \A file \in DataFiles : FixedWidth(Disk'[file])
     /\ (last'.op = "add_model" /\ PayloadLen(_model_to_string(last'.arg)) > RECORD_LENGTH)
          => (last'.err = "RecordTooLarge" /\ files' = files)
     /\ (/\ last'.op = "revert_sale"
         /\ \E i \in SalesNumbered(sales, last'.arg) :
              /\ \A j \in SalesNumbered(sales, last'.arg) : j <= i
              /\ ~IsNone(Lookup(Disk, sales[i][2]))
              /\ PayloadLen(_car_to_string(
                   [Lookup(Disk, sales[i][2])[1] EXCEPT !.status = available])) > RECORD_LENGTH)
          => (last'.err = "RecordTooLarge" /\ cars' = cars)]_vars

\* ---- C17 ----------------------------------------------------------------
\* C17: at every point of a sale, between its writes and after an
\* interruption included, every persisted sale record references a car that
\* the lookup finds with status sold (checked under SpecSteps).
SaleRecordsReferenceSoldCars ==
  \A i \in 1..Len(sales) :
    is_sale_line(sales[i]) =>
      /\ ~IsNone(Lookup(Disk, _string_to_sale(sales[i]).car_vin))
      /\ Lookup(Disk, _string_to_sale(sales[i]).car_vin)[1].status = sold

\* ---- C18 ----------------------------------------------------------------
\* Some record of cars.txt has no entry in the cars index, or an entry that
\* maps its VIN to another slot.
CarsIndexCorrupt ==
  \E i \in 1..Len(cars) :
    \/ _find_line_number_in_index(cars_index, cars[i][1]) = None
    \/ _find_line_number_in_index(cars_index, cars[i][1]) # Some(i - 1)

NoCallInProgress == \A c \in Callers : running.calls[c].pc = "idle"

\* C18: with single-writer access the cars index matches cars.txt whenever no
\* insertion is in progress; it is corrupted only once two callers'
\* insertions have overlapped (checked under SpecRace), and then it can be:
\* IndexCorruptedByRace is reached.
IndexCorruptOnlyByRace == (NoCallInProgress /\ CarsIndexCorrupt) => running.overlapped

\* Both callers have returned, both records are in cars.txt, and the index
\* lacks one of them or maps a VIN to the wrong slot.
IndexCorruptedByRace == NoCallInProgress /\ Len(cars) = 2 /\ CarsIndexCorrupt

====
